---- MODULE Spec2Model ----
(***************************************************************************)
(* Model of the AES binding stub native/stub.c of rijndael.mbt and of the  *)
(* Rijndael engine (rijndael-alg-fst) that the stub calls.                 *)
(*                                                                         *)
(* Bytes are integers 0..255, byte buffers are sequences (index 1 is the   *)
(* byte at C offset 0), a 32-bit word is a 4-tuple of bytes, most          *)
(* significant byte first.                                                 *)
(***************************************************************************)
EXTENDS Integers, Sequences, FiniteSets, TLC

(* ------------------------------------------------------------------ *)
(* Galois-field tables (spec 4.1)                                       *)
(* ------------------------------------------------------------------ *)

Sbox ==
  << 99, 124, 119, 123, 242, 107, 111, 197, 48, 1, 103, 43, 254, 215, 171, 118,
     202, 130, 201, 125, 250, 89, 71, 240, 173, 212, 162, 175, 156, 164, 114, 192,
     183, 253, 147, 38, 54, 63, 247, 204, 52, 165, 229, 241, 113, 216, 49, 21,
     4, 199, 35, 195, 24, 150, 5, 154, 7, 18, 128, 226, 235, 39, 178, 117,
     9, 131, 44, 26, 27, 110, 90, 160, 82, 59, 214, 179, 41, 227, 47, 132,
     83, 209, 0, 237, 32, 252, 177, 91, 106, 203, 190, 57, 74, 76, 88, 207,
     208, 239, 170, 251, 67, 77, 51, 133, 69, 249, 2, 127, 80, 60, 159, 168,
     81, 163, 64, 143, 146, 157, 56, 245, 188, 182, 218, 33, 16, 255, 243, 210,
     205, 12, 19, 236, 95, 151, 68, 23, 196, 167, 126, 61, 100, 93, 25, 115,
     96, 129, 79, 220, 34, 42, 144, 136, 70, 238, 184, 20, 222, 94, 11, 219,
     224, 50, 58, 10, 73, 6, 36, 92, 194, 211, 172, 98, 145, 149, 228, 121,
     231, 200, 55, 109, 141, 213, 78, 169, 108, 86, 244, 234, 101, 122, 174, 8,
     186, 120, 37, 46, 28, 166, 180, 198, 232, 221, 116, 31, 75, 189, 139, 138,
     112, 62, 181, 102, 72, 3, 246, 14, 97, 53, 87, 185, 134, 193, 29, 158,
     225, 248, 152, 17, 105, 217, 142, 148, 155, 30, 135, 233, 206, 85, 40, 223,
     140, 161, 137, 13, 191, 230, 66, 104, 65, 153, 45, 15, 176, 84, 187, 22 >>

InvSbox ==
  << 82, 9, 106, 213, 48, 54, 165, 56, 191, 64, 163, 158, 129, 243, 215, 251,
     124, 227, 57, 130, 155, 47, 255, 135, 52, 142, 67, 68, 196, 222, 233, 203,
     84, 123, 148, 50, 166, 194, 35, 61, 238, 76, 149, 11, 66, 250, 195, 78,
     8, 46, 161, 102, 40, 217, 36, 178, 118, 91, 162, 73, 109, 139, 209, 37,
     114, 248, 246, 100, 134, 104, 152, 22, 212, 164, 92, 204, 93, 101, 182, 146,
     108, 112, 72, 80, 253, 237, 185, 218, 94, 21, 70, 87, 167, 141, 157, 132,
     144, 216, 171, 0, 140, 188, 211, 10, 247, 228, 88, 5, 184, 179, 69, 6,
     208, 44, 30, 143, 202, 63, 15, 2, 193, 175, 189, 3, 1, 19, 138, 107,
     58, 145, 17, 65, 79, 103, 220, 234, 151, 242, 207, 206, 240, 180, 230, 115,
     150, 172, 116, 34, 231, 173, 53, 133, 226, 249, 55, 232, 28, 117, 223, 110,
     71, 241, 26, 113, 29, 41, 197, 137, 111, 183, 98, 14, 170, 24, 190, 27,
     252, 86, 62, 75, 198, 210, 121, 32, 154, 219, 192, 254, 120, 205, 90, 244,
     31, 221, 168, 51, 136, 7, 199, 49, 177, 18, 16, 89, 39, 128, 236, 95,
     96, 81, 127, 169, 25, 181, 74, 13, 45, 229, 122, 159, 147, 201, 156, 239,
     160, 224, 59, 77, 174, 42, 245, 176, 200, 235, 187, 60, 131, 83, 153, 97,
     23, 43, 4, 126, 186, 119, 214, 38, 225, 105, 20, 99, 85, 33, 12, 125 >>

NibbleXor ==
  << 0, 1, 2, 3, 4, 5, 6, 7, 8, 9, 10, 11, 12, 13, 14, 15,
     1, 0, 3, 2, 5, 4, 7, 6, 9, 8, 11, 10, 13, 12, 15, 14,
     2, 3, 0, 1, 6, 7, 4, 5, 10, 11, 8, 9, 14, 15, 12, 13,
     3, 2, 1, 0, 7, 6, 5, 4, 11, 10, 9, 8, 15, 14, 13, 12,
     4, 5, 6, 7, 0, 1, 2, 3, 12, 13, 14, 15, 8, 9, 10, 11,
     5, 4, 7, 6, 1, 0, 3, 2, 13, 12, 15, 14, 9, 8, 11, 10,
     6, 7, 4, 5, 2, 3, 0, 1, 14, 15, 12, 13, 10, 11, 8, 9,
     7, 6, 5, 4, 3, 2, 1, 0, 15, 14, 13, 12, 11, 10, 9, 8,
     8, 9, 10, 11, 12, 13, 14, 15, 0, 1, 2, 3, 4, 5, 6, 7,
     9, 8, 11, 10, 13, 12, 15, 14, 1, 0, 3, 2, 5, 4, 7, 6,
     10, 11, 8, 9, 14, 15, 12, 13, 2, 3, 0, 1, 6, 7, 4, 5,
     11, 10, 9, 8, 15, 14, 13, 12, 3, 2, 1, 0, 7, 6, 5, 4,
     12, 13, 14, 15, 8, 9, 10, 11, 4, 5, 6, 7, 0, 1, 2, 3,
     13, 12, 15, 14, 9, 8, 11, 10, 5, 4, 7, 6, 1, 0, 3, 2,
     14, 15, 12, 13, 10, 11, 8, 9, 6, 7, 4, 5, 2, 3, 0, 1,
     15, 14, 13, 12, 11, 10, 9, 8, 7, 6, 5, 4, 3, 2, 1, 0 >>

\* Forces a function over 1..n into an explicit tuple.
Tup(f) == SubSeq(f, 1, Len(f))

\* a ^ b on 4-bit values is NibbleXor[16*a + b + 1]; on bytes it is
\* XorTable[256*a + b + 1].
XorTable ==
  Tup([k \in 1..65536 |->
        LET a == (k - 1) \div 256
            b == (k - 1) % 256
        IN  16 * NibbleXor[16 * (a \div 16) + (b \div 16) + 1]
              + NibbleXor[16 * (a % 16) + (b % 16) + 1]])

Xor8(a, b) == XorTable[256 * a + b + 1]

XorSeq(a, b) == Tup([i \in 1..Len(a) |-> Xor8(a[i], b[i])])

\* Multiplication by x modulo x^8+x^4+x^3+x+1.
xtime(a) == IF a >= 128 THEN Xor8((2 * a) % 256, 27) ELSE 2 * a

\* Multiplication tables over GF(2^8): entry a + 1 is a times 2, 3, 9, 11, 13, 14.
Mul2 == Tup([i \in 1..256 |-> xtime(i - 1)])
Mul3 == Tup([i \in 1..256 |-> Xor8(xtime(i - 1), i - 1)])
Mul9 == Tup([i \in 1..256 |-> Xor8(xtime(xtime(xtime(i - 1))), i - 1)])
Mul11 == Tup([i \in 1..256 |-> Xor8(Mul9[i], xtime(i - 1))])
Mul13 == Tup([i \in 1..256 |-> Xor8(Mul9[i], xtime(xtime(i - 1)))])
Mul14 == Tup([i \in 1..256 |->
           Xor8(Xor8(xtime(xtime(xtime(i - 1))), xtime(xtime(i - 1))), xtime(i - 1))])

\* Round constants, one per round index.
rcon == << 1, 2, 4, 8, 16, 32, 64, 128, 27, 54 >>

(* ------------------------------------------------------------------ *)
(* Round primitives on a 16-byte state in column-major order            *)
(* (state byte 4*c + r + 1 is row r of column c).                       *)
(* ------------------------------------------------------------------ *)

SubBytes(s) == Tup([i \in 1..16 |-> Sbox[s[i] + 1]])
InvSubBytes(s) == Tup([i \in 1..16 |-> InvSbox[s[i] + 1]])

\* Row r is rotated left by r: new (r, c) is old (r, c + r).
ShiftRows(s) ==
  Tup([i \in 1..16 |->
        LET r == (i - 1) % 4
            c == (i - 1) \div 4
        IN  s[4 * ((c + r) % 4) + r + 1]])

\* Row r is rotated right by r: new (r, c) is old (r, c - r).
InvShiftRows(s) ==
  Tup([i \in 1..16 |->
        LET r == (i - 1) % 4
            c == (i - 1) \div 4
        IN  s[4 * ((c + 4 - r) % 4) + r + 1]])

MixColumn(a) ==
  << Xor8(Xor8(Mul2[a[1] + 1], Mul3[a[2] + 1]), Xor8(a[3], a[4])),
     Xor8(Xor8(a[1], Mul2[a[2] + 1]), Xor8(Mul3[a[3] + 1], a[4])),
     Xor8(Xor8(a[1], a[2]), Xor8(Mul2[a[3] + 1], Mul3[a[4] + 1])),
     Xor8(Xor8(Mul3[a[1] + 1], a[2]), Xor8(a[3], Mul2[a[4] + 1])) >>

InvMixColumn(a) ==
  << Xor8(Xor8(Mul14[a[1] + 1], Mul11[a[2] + 1]), Xor8(Mul13[a[3] + 1], Mul9[a[4] + 1])),
     Xor8(Xor8(Mul9[a[1] + 1], Mul14[a[2] + 1]), Xor8(Mul11[a[3] + 1], Mul13[a[4] + 1])),
     Xor8(Xor8(Mul13[a[1] + 1], Mul9[a[2] + 1]), Xor8(Mul14[a[3] + 1], Mul11[a[4] + 1])),
     Xor8(Xor8(Mul11[a[1] + 1], Mul13[a[2] + 1]), Xor8(Mul9[a[3] + 1], Mul14[a[4] + 1])) >>

MixColumns(s) ==
  MixColumn(SubSeq(s, 1, 4)) \o MixColumn(SubSeq(s, 5, 8))
    \o MixColumn(SubSeq(s, 9, 12)) \o MixColumn(SubSeq(s, 13, 16))

InvMixColumns(s) ==
  InvMixColumn(SubSeq(s, 1, 4)) \o InvMixColumn(SubSeq(s, 5, 8))
    \o InvMixColumn(SubSeq(s, 9, 12)) \o InvMixColumn(SubSeq(s, 13, 16))

\* Round key j of a word array rk (words 4j .. 4j+3), as 16 bytes.
RoundKey(rk, j) == rk[4 * j + 1] \o rk[4 * j + 2] \o rk[4 * j + 3] \o rk[4 * j + 4]

AddRoundKey(s, rk, j) == XorSeq(s, RoundKey(rk, j))

(* ------------------------------------------------------------------ *)
(* KeyScheduler (spec 4.2)                                              *)
(* ------------------------------------------------------------------ *)

NrOfKeyBits(keyBits) ==
  CASE keyBits = 128 -> 10
    [] keyBits = 192 -> 12
    [] keyBits = 256 -> 14
    [] OTHER -> 0

RotWord(w) == << w[2], w[3], w[4], w[1] >>
SubWord(w) == << Sbox[w[1] + 1], Sbox[w[2] + 1], Sbox[w[3] + 1], Sbox[w[4] + 1] >>

\* w[i] from w[i-1] and w[i-Nk]; i is the 0-based index of the new word.
NextWord(w, i, Nk) ==
  LET prev == w[i]
      t == IF i % Nk = 0
             THEN LET u == SubWord(RotWord(prev))
                  IN  << Xor8(u[1], rcon[i \div Nk]), u[2], u[3], u[4] >>
             ELSE IF Nk > 6 /\ i % Nk = 4 THEN SubWord(prev) ELSE prev
  IN  XorSeq(w[i - Nk + 1], t)

RECURSIVE ExpandKey(_, _, _)
ExpandKey(w, Nk, total) ==
  IF Len(w) >= total THEN w
  ELSE ExpandKey(Append(w, NextWord(w, Len(w), Nk)), Nk, total)

\* The key is not exactly 16, 24 or 32 bytes: InvalidKeySize, reported as
\* round count 0 with nothing written to rk.
camlpdf_rijndaelKeySetupEnc(cipherKey, keyBits) ==
  LET Nr == NrOfKeyBits(keyBits)
      Nk == keyBits \div 32
  IN  IF Nr = 0 THEN [nr |-> 0, rk |-> << >>]
      ELSE [nr |-> Nr,
            rk |-> ExpandKey([i \in 1..Nk |-> SubSeq(cipherKey, 4 * i - 3, 4 * i)],
                             Nk, 4 * (Nr + 1))]

InvMixWord(w) == InvMixColumn(w)

camlpdf_rijndaelKeySetupDec(cipherKey, keyBits) ==
  LET e == camlpdf_rijndaelKeySetupEnc(cipherKey, keyBits)
      Nr == e.nr
      \* round keys in reverse order, words within a round key in place
      rev == Tup([i \in 1..Len(e.rk) |->
                e.rk[4 * (Nr - ((i - 1) \div 4)) + ((i - 1) % 4) + 1]])
  IN  IF Nr = 0 THEN e
      ELSE [nr |-> Nr,
            rk |-> Tup([i \in 1..Len(rev) |->
                     IF i > 4 /\ i <= 4 * Nr THEN InvMixWord(rev[i]) ELSE rev[i]])]

(* ------------------------------------------------------------------ *)
(* BlockEncryptor / BlockDecryptor (spec 4.3, 4.4)                      *)
(* ------------------------------------------------------------------ *)

RECURSIVE EncRounds(_, _, _, _)
EncRounds(s, rk, r, Nr) ==
  IF Len(s) = 16 /\ r < Nr
    THEN EncRounds(AddRoundKey(MixColumns(ShiftRows(SubBytes(s))), rk, r),
                   rk, r + 1, Nr)
    ELSE AddRoundKey(ShiftRows(SubBytes(s)), rk, Nr)

camlpdf_rijndaelEncrypt(rk, Nr, pt) == EncRounds(AddRoundKey(pt, rk, 0), rk, 1, Nr)

\* Equivalent inverse cipher: the interior round keys of the decryption
\* schedule went through InvMixColumns, so in rounds 1 .. Nr-1 the round key is
\* added after InvMixColumns.
RECURSIVE DecRounds(_, _, _, _)
DecRounds(s, rk, r, Nr) ==
  IF Len(s) = 16 /\ r < Nr
    THEN DecRounds(AddRoundKey(InvMixColumns(InvSubBytes(InvShiftRows(s))), rk, r),
                   rk, r + 1, Nr)
    ELSE AddRoundKey(InvSubBytes(InvShiftRows(s)), rk, Nr)

camlpdf_rijndaelDecrypt(rk, Nr, ct) == DecRounds(AddRoundKey(ct, rk, 0), rk, 1, Nr)

(* ------------------------------------------------------------------ *)
(* Binding stub (native/stub.c)                                         *)
(* ------------------------------------------------------------------ *)

MAXNR == 14
SizeofU32 == 4

Cooked_key_NR_offset == (4 * (MAXNR + 1)) * SizeofU32
Cooked_key_size == Cooked_key_NR_offset + 1

ByteOrders == {"little", "big"}

\* The bytes a native u32 store of word w leaves in memory, lowest address
\* first, and the word a native u32 load of four bytes yields.
StoreU32(order, w) == IF order = "big" THEN w ELSE << w[4], w[3], w[2], w[1] >>
LoadU32(order, b) == IF order = "big" THEN b ELSE << b[4], b[3], b[2], b[1] >>

\* rk[0 .. Len(rk)-1] written through (u32 *)ckey.
StoreWords(ckey, rk, order) ==
  Tup([i \in 1..Len(ckey) |->
        IF i <= 4 * Len(rk)
          THEN StoreU32(order, rk[((i - 1) \div 4) + 1])[((i - 1) % 4) + 1]
          ELSE ckey[i]])

\* rk[0 .. n-1] read through (const u32 *)ckey.
LoadWords(ckey, n, order) ==
  Tup([j \in 1..n |-> LoadU32(order, SubSeq(ckey, 4 * j - 3, 4 * j))])

\* The cook functions yield ret, the array they return; nr and words record
\* what the engine call gave back (its result and how many words it wrote).

\* Variant: the array is returned as the allocator left it.
moonbit_make_bytes_Uninitialised(len, init, stale) == Tup([i \in 1..len |-> stale])

\* A fresh byte array of len bytes, each set to init; stale is what the
\* allocator's memory held before.
moonbit_make_bytes(len, init, stale) == Tup([i \in 1..len |-> init])

\* Variant: the key length is stored where the round count belongs.
camlpdf_caml_aes_cook_encrypt_key_StoresKeyLen(key, stale, order) ==
  LET ckey == moonbit_make_bytes(Cooked_key_size, 0, stale)
      r == camlpdf_rijndaelKeySetupEnc(key, 8 * Len(key))
      filled == StoreWords(ckey, r.rk, order)
  IN  [ret |-> [filled EXCEPT ![Cooked_key_NR_offset + 1] = Len(key) % 256],
       nr |-> r.nr, words |-> Len(r.rk)]

\* Variant: the round count is stored right behind the last round key.
camlpdf_caml_aes_cook_encrypt_key_Packed(key, stale, order) ==
  LET ckey == moonbit_make_bytes(Cooked_key_size, 0, stale)
      r == camlpdf_rijndaelKeySetupEnc(key, 8 * Len(key))
      filled == StoreWords(ckey, r.rk, order)
  IN  [ret |-> [filled EXCEPT ![16 * (r.nr + 1) + 1] = r.nr % 256],
       nr |-> r.nr, words |-> Len(r.rk)]

camlpdf_caml_aes_cook_encrypt_key(key, stale, order) ==
  LET ckey_len == Cooked_key_size
      ckey == moonbit_make_bytes(ckey_len, 0, stale)
      key_len == Len(key)
      r == camlpdf_rijndaelKeySetupEnc(key, 8 * key_len)
      filled == StoreWords(ckey, r.rk, order)
  IN  [ret |-> [filled EXCEPT ![Cooked_key_NR_offset + 1] = r.nr % 256],
       nr |-> r.nr, words |-> Len(r.rk)]

\* Variant: the decryption stub calls the encryption key setup.
camlpdf_caml_aes_cook_decrypt_key_UsesEnc(key, stale, order) ==
  LET ckey == moonbit_make_bytes(Cooked_key_size, 0, stale)
      r == camlpdf_rijndaelKeySetupEnc(key, 8 * Len(key))
      filled == StoreWords(ckey, r.rk, order)
  IN  [ret |-> [filled EXCEPT ![Cooked_key_NR_offset + 1] = r.nr % 256],
       nr |-> r.nr, words |-> Len(r.rk)]

\* Variant: the key length in bytes is passed as the key size in bits.
camlpdf_caml_aes_cook_decrypt_key_BytesAsBits(key, stale, order) ==
  LET ckey == moonbit_make_bytes(Cooked_key_size, 0, stale)
      r == camlpdf_rijndaelKeySetupDec(key, Len(key))
      filled == StoreWords(ckey, r.rk, order)
  IN  [ret |-> [filled EXCEPT ![Cooked_key_NR_offset + 1] = r.nr % 256],
       nr |-> r.nr, words |-> Len(r.rk)]

camlpdf_caml_aes_cook_decrypt_key(key, stale, order) ==
  LET ckey_len == Cooked_key_size
      ckey == moonbit_make_bytes(ckey_len, 0, stale)
      key_len == Len(key)
      r == camlpdf_rijndaelKeySetupDec(key, 8 * key_len)
      filled == StoreWords(ckey, r.rk, order)
  IN  [ret |-> [filled EXCEPT ![Cooked_key_NR_offset + 1] = r.nr % 256],
       nr |-> r.nr, words |-> Len(r.rk)]

\* Variant: the output pointer is taken from the schedule argument.
TransformArgs_WritesSchedule(m, ckey, src, src_ofs, dst, dst_ofs) ==
  [rk |-> ckey,
   nr |-> m[ckey][Cooked_key_NR_offset + 1],
   pt |-> [obj |-> src, ofs |-> src_ofs],
   ct |-> [obj |-> ckey, ofs |-> dst_ofs]]

\* Variant: the output pointer is advanced by the source offset.
TransformArgs_SrcOffsetForDst(m, ckey, src, src_ofs, dst, dst_ofs) ==
  [rk |-> ckey,
   nr |-> m[ckey][Cooked_key_NR_offset + 1],
   pt |-> [obj |-> src, ofs |-> src_ofs],
   ct |-> [obj |-> dst, ofs |-> src_ofs]]

\* The arguments the stub hands to the engine: the schedule pointer, the
\* round count read from the schedule, and the two block pointers.
TransformArgs(m, ckey, src, src_ofs, dst, dst_ofs) ==
  [rk |-> ckey,
   nr |-> m[ckey][Cooked_key_NR_offset + 1],
   pt |-> [obj |-> src, ofs |-> src_ofs],
   ct |-> [obj |-> dst, ofs |-> dst_ofs]]

\* The engine reads the round keys and the whole input block first ...
CoreRead(m, a, order) ==
  [nr |-> a.nr,
   rk |-> LoadWords(m[a.rk], 4 * (a.nr + 1), order),
   blk |-> SubSeq(m[a.pt.obj], a.pt.ofs + 1, a.pt.ofs + 16)]

\* ... and writes the 16 output bytes last.
CoreWrite(m, a, out) ==
  [m EXCEPT ![a.ct.obj] =
     Tup([i \in 1..Len(@) |->
           IF i > a.ct.ofs /\ i <= a.ct.ofs + 16 THEN out[i - a.ct.ofs] ELSE @[i]])]

camlpdf_caml_aes_encrypt(m, ckey, src, src_ofs, dst, dst_ofs, order) ==
  LET a == TransformArgs(m, ckey, src, src_ofs, dst, dst_ofs)
      l == CoreRead(m, a, order)
  IN  CoreWrite(m, a, camlpdf_rijndaelEncrypt(l.rk, l.nr, l.blk))

camlpdf_caml_aes_decrypt(m, ckey, src, src_ofs, dst, dst_ofs, order) ==
  LET a == TransformArgs(m, ckey, src, src_ofs, dst, dst_ofs)
      l == CoreRead(m, a, order)
  IN  CoreWrite(m, a, camlpdf_rijndaelDecrypt(l.rk, l.nr, l.blk))

(* ------------------------------------------------------------------ *)
(* The caller: state and operations                                     *)
(* ------------------------------------------------------------------ *)

MaxCalls == 2
BufLen == 18

ValidKeyLens == {16, 24, 32}
KeyLens == {15, 16, 17, 23, 24, 25, 31, 32, 33}
KeyOf(n) == Tup([i \in 1..n |-> (37 * i + n) % 256])

StaleBytes == {0, 165}
Ops == {"encrypt", "decrypt"}
Threads == {0, 1}
ConcBufLen == 16 * Cardinality(Threads)

VARIABLES
  callerKey,   \* the raw key of this run
  byteOrder,   \* byte order of the machine
  mem,         \* byte arrays: the schedules "E", "D" and the buffers "A", "B"
  cooked,      \* what the derivations returned so far
  recooked,    \* some orientation has been derived more than once
  calls,       \* the block calls that returned
  last,        \* arguments of the most recent block call
  nCalls,      \* block calls made
  oob,         \* a call accessed memory outside its buffers
  pc, targ, tloc, texp   \* concurrent callers

vars == << callerKey, byteOrder, mem, cooked, recooked, calls, last, nCalls,
           oob, pc, targ, tloc, texp >>

NoArgs == [rk |-> "E", nr |-> 0, pt |-> [obj |-> "A", ofs |-> 0],
           ct |-> [obj |-> "A", ofs |-> 0]]
NoCall == [op |-> "none", ckey |-> "E", src |-> "A", src_ofs |-> 0,
           dst |-> "A", dst_ofs |-> 0]
NoTArg == [op |-> "none", a |-> NoArgs]
NoLoc == [nr |-> 0, rk |-> << >>, blk |-> << >>]
NoExp == [op |-> "none", dst |-> "A", dst_ofs |-> 0, exp |-> << >>]

Window(m, obj, ofs) == SubSeq(m[obj], ofs + 1, ofs + 16)

\* Both 16-byte views of call site s lie inside their buffers.
InBounds(m, s) ==
  /\ s[2] >= 0 /\ s[2] + 16 <= Len(m[s[1]])
  /\ s[4] >= 0 /\ s[4] + 16 <= Len(m[s[3]])

IdleThreads ==
  /\ pc = [t \in Threads |-> "idle"]
  /\ targ = [t \in Threads |-> NoTArg]
  /\ tloc = [t \in Threads |-> NoLoc]
  /\ texp = [t \in Threads |-> NoExp]

Init ==
  /\ callerKey \in {KeyOf(n) : n \in KeyLens}
  /\ byteOrder \in ByteOrders
  /\ mem = [o \in {"E", "D", "A", "B"} |->
              CASE o = "A" -> Tup([i \in 1..BufLen |-> (17 * i) % 256])
                [] o = "B" -> Tup([i \in 1..BufLen |-> (255 - 3 * i) % 256])
                [] OTHER -> << >>]
  /\ cooked = {}
  /\ recooked = FALSE
  /\ calls = {}
  /\ last = NoCall
  /\ nCalls = 0
  /\ oob = FALSE
  /\ IdleThreads

Cook(made, slot, run) ==
  /\ ~oob
  /\ mem' = [mem EXCEPT ![slot] = run.ret]
  /\ cooked' = cooked \cup
       {[made |-> made, ckey |-> run.ret, nr |-> run.nr, words |-> run.words]}
  /\ recooked' = (recooked \/ \E c \in cooked : c.made = made)
  /\ UNCHANGED << callerKey, byteOrder, calls, last, nCalls, oob, pc, targ,
                  tloc, texp >>

CookEncryptKey ==
  \E stale \in StaleBytes :
    Cook("encrypt", "E", camlpdf_caml_aes_cook_encrypt_key(callerKey, stale, byteOrder))

CookDecryptKey ==
  \E stale \in StaleBytes :
    Cook("decrypt", "D", camlpdf_caml_aes_cook_decrypt_key(callerKey, stale, byteOrder))

\* The call sites of the caller, (src, src_ofs, dst, dst_ofs): a copy between
\* the buffers, the copy back, an in-place call, and four calls whose source
\* or destination view leaves its buffer.
CopySite == << "A", 0, "B", BufLen - 16 >>

CallSites ==
  { CopySite,
    << "B", BufLen - 16, "A", 0 >>,
    << "A", 0, "A", 0 >>,
    << "A", 0 - 1, "B", 0 >>,
    << "A", BufLen - 15, "B", 0 >>,
    << "A", 0, "B", 0 - 1 >>,
    << "A", 0, "B", BufLen - 15 >> }

\* The transform routines are run on schedules derived from a key of a valid
\* size only.
Usable(slot) == mem[slot] # << >> /\ Len(callerKey) \in ValidKeyLens

MadeBy(slot) == IF slot = "E" THEN "encrypt" ELSE "decrypt"

\* A schedule of the other orientation is passed at the copy site only.
SitesOf(op, slot) == IF op = MadeBy(slot) THEN CallSites ELSE {CopySite}

StubCall(op, m, ckey, s, order) ==
  IF op = "encrypt"
    THEN camlpdf_caml_aes_encrypt(m, ckey, s[1], s[2], s[3], s[4], order)
    ELSE camlpdf_caml_aes_decrypt(m, ckey, s[1], s[2], s[3], s[4], order)

\* What an out-of-bounds access leaves behind: the process is killed (-1), or
\* the call returns and the part of the window inside dst holds some byte g.
Havoc(m, s, g) ==
  IF g < 0 THEN m
  ELSE [m EXCEPT ![s[3]] =
          Tup([i \in 1..Len(@) |->
                IF i > s[4] /\ i <= s[4] + 16 THEN g ELSE @[i]])]

Call(op, slot, s) ==
  LET a == TransformArgs(mem, slot, s[1], s[2], s[3], s[4]) IN
  /\ ~oob
  /\ nCalls < MaxCalls
  /\ Usable(slot)
  /\ nCalls' = nCalls + 1
  /\ last' = [op |-> op, ckey |-> slot, src |-> s[1], src_ofs |-> s[2],
              dst |-> s[3], dst_ofs |-> s[4]]
  /\ IF InBounds(mem, s)
       THEN /\ mem' = StubCall(op, mem, slot, s, byteOrder)
            /\ calls' = calls \cup
                 {[op |-> op, made |-> MadeBy(slot), nr |-> a.nr,
                   src |-> s[1], src_ofs |-> s[2], dst |-> s[3], dst_ofs |-> s[4],
                   in |-> Window(mem, s[1], s[2]),
                   before |-> Window(mem, s[3], s[4]),
                   out |-> Window(mem', s[3], s[4])]}
            /\ oob' = FALSE
       ELSE /\ \E g \in {0 - 1, 165} : mem' = Havoc(mem, s, g)
            /\ calls' = calls
            /\ oob' = TRUE
  /\ UNCHANGED << callerKey, byteOrder, cooked, recooked, pc, targ, tloc, texp >>

Encrypt == \E slot \in {"E", "D"} : \E s \in SitesOf("encrypt", slot) : Call("encrypt", slot, s)
Decrypt == \E slot \in {"E", "D"} : \E s \in SitesOf("decrypt", slot) : Call("decrypt", slot, s)

Next == CookEncryptKey \/ CookDecryptKey \/ Encrypt \/ Decrypt

Spec == Init /\ [][Next]_vars

\* Schedule derivation alone.
NextCook == CookEncryptKey \/ CookDecryptKey

SpecCook == Init /\ [][NextCook]_vars

(* ------------------------------------------------------------------ *)
(* Concurrent block calls on one pair of schedules                      *)
(* ------------------------------------------------------------------ *)

\* Both schedules of a valid key have been derived; thread t owns block t of
\* each buffer (bytes 16*t .. 16*t + 15), so the blocks of two threads are
\* disjoint.
InitConc ==
  /\ callerKey \in {KeyOf(n) : n \in ValidKeyLens}
  /\ byteOrder \in ByteOrders
  /\ \E stale \in StaleBytes :
       LET e == camlpdf_caml_aes_cook_encrypt_key(callerKey, stale, byteOrder)
           d == camlpdf_caml_aes_cook_decrypt_key(callerKey, stale, byteOrder)
       IN  /\ mem = [o \in {"E", "D", "A", "B"} |->
                      CASE o = "A" -> Tup([i \in 1..ConcBufLen |-> (17 * i) % 256])
                        [] o = "B" -> Tup([i \in 1..ConcBufLen |-> (255 - 3 * i) % 256])
                        [] o = "E" -> e.ret
                        [] OTHER -> d.ret]
           /\ cooked = {[made |-> "encrypt", ckey |-> e.ret, nr |-> e.nr, words |-> e.words],
                        [made |-> "decrypt", ckey |-> d.ret, nr |-> d.nr, words |-> d.words]}
  /\ recooked = FALSE
  /\ calls = {}
  /\ last = NoCall
  /\ nCalls = 0
  /\ oob = FALSE
  /\ IdleThreads

SlotOf(op) == IF op = "encrypt" THEN "E" ELSE "D"

\* Thread t enters the stub: the stub reads the round count and passes the
\* pointers on.  The destination is block t of B, or block t of A (in place).
TCall(t) ==
  /\ pc[t] = "idle"
  /\ nCalls < MaxCalls
  /\ \E op \in Ops, dst \in {"A", "B"} :
       LET s == << "A", 16 * t, dst, 16 * t >> IN
       /\ targ' = [targ EXCEPT ![t] =
                     [op |-> op,
                      a |-> TransformArgs(mem, SlotOf(op), s[1], s[2], s[3], s[4])]]
       /\ texp' = [texp EXCEPT ![t] =
                     [op |-> op, dst |-> dst, dst_ofs |-> 16 * t,
                      exp |-> Window(StubCall(op, mem, SlotOf(op), s, byteOrder),
                                     dst, 16 * t)]]
  /\ pc' = [pc EXCEPT ![t] = "called"]
  /\ nCalls' = nCalls + 1
  /\ UNCHANGED << callerKey, byteOrder, mem, cooked, recooked, calls, last, oob, tloc >>

\* The engine loads the round keys and the input block.
TRead(t) ==
  /\ pc[t] = "called"
  /\ tloc' = [tloc EXCEPT ![t] = CoreRead(mem, targ[t].a, byteOrder)]
  /\ pc' = [pc EXCEPT ![t] = "read"]
  /\ UNCHANGED << callerKey, byteOrder, mem, cooked, recooked, calls, last,
                  nCalls, oob, targ, texp >>

\* The engine stores the output block and the call returns.
TWrite(t) ==
  /\ pc[t] = "read"
  /\ mem' = CoreWrite(mem, targ[t].a,
                      IF targ[t].op = "encrypt"
                        THEN camlpdf_rijndaelEncrypt(tloc[t].rk, tloc[t].nr, tloc[t].blk)
                        ELSE camlpdf_rijndaelDecrypt(tloc[t].rk, tloc[t].nr, tloc[t].blk))
  /\ pc' = [pc EXCEPT ![t] = "idle"]
  /\ UNCHANGED << callerKey, byteOrder, cooked, recooked, calls, last, nCalls,
                  oob, targ, tloc, texp >>

NextConc == \E t \in Threads : TCall(t) \/ TRead(t) \/ TWrite(t)

SpecConc == InitConc /\ [][NextConc]_vars

(* ------------------------------------------------------------------ *)
(* Properties                                                           *)
(* ------------------------------------------------------------------ *)

ValidKey == Len(callerKey) \in {16, 24, 32}

\* The round count the key length stands for.
NrFor(len) == CASE len = 16 -> 10 [] len = 24 -> 12 [] len = 32 -> 14 [] OTHER -> 0 - 1

SameInput(c1, c2) == c1.op = c2.op /\ c1.made = c2.made /\ c1.in = c2.in

C2_InvalidKeySizeRejected ==
  ~ValidKey => (cooked = {} /\ mem["E"] = << >> /\ mem["D"] = << >>)

\* C3: a schedule of the wrong orientation is detected before any output is
\* produced: such a call leaves its destination block as it was.
C3_WrongOrientationRejected ==
  \A c \in calls : c.op # c.made => c.out = c.before

\* C4: a source or destination view that is not 16 in-bounds bytes is rejected
\* before any byte is read or written: no call accesses memory outside src or
\* dst.
C4_NoAccessOutsideBounds == ~oob

\* C5: for a valid key the round count of a derived schedule is the one the
\* key length determines (16 -> 10, 24 -> 12, 32 -> 14), the engine wrote
\* Nr + 1 round keys (4 words each), the schedule stores that Nr, and every
\* block call reads the same Nr back.
C5_NrDeterminedByKeyLength ==
  ValidKey =>
    /\ \A c \in cooked :
         /\ c.nr = NrFor(Len(callerKey))
         /\ c.words = 4 * (c.nr + 1)
         /\ c.ckey[16 * (MAXNR + 1) + 1] = c.nr
    /\ \A c \in calls : c.nr = NrFor(Len(callerKey))

C5_Witness ==
  /\ \E c \in cooked : c.made = "encrypt" /\ c.nr = 12 /\ c.words = 52
  /\ \E c \in cooked : c.made = "decrypt" /\ c.nr = 12
  /\ \E c \in calls : c.op = "decrypt" /\ c.nr = 12

\* C6 as stated: the Nr byte sits at offset 16*(Nr+1), right behind the last
\* round key, and is the last byte of the buffer, for every key size.
C6_PackedLayout ==
  ValidKey =>
    \A c \in cooked :
      LET Nr == NrFor(Len(callerKey)) IN
      /\ Len(c.ckey) = 16 * (Nr + 1) + 1
      /\ c.ckey[16 * (Nr + 1) + 1] = Nr

\* C6 amended: the buffer is 16*(MAXNR+1) + 1 = 241 bytes for every key size;
\* the Nr + 1 round keys are packed from offset 0 (an encryption schedule
\* starts with the key itself, word by word), the bytes from offset 16*(Nr+1)
\* up to offset 239 are zero, and the Nr byte is the last byte, at offset 240.
C6_FixedLayout ==
  ValidKey =>
    \A c \in cooked :
      LET Nr == NrFor(Len(callerKey)) IN
      /\ Len(c.ckey) = 16 * (MAXNR + 1) + 1
      /\ c.ckey[16 * (MAXNR + 1) + 1] = Nr
      /\ c.words = 4 * (Nr + 1)
      /\ \A i \in (16 * (Nr + 1) + 1)..(16 * (MAXNR + 1)) : c.ckey[i] = 0
      /\ c.made = "encrypt" =>
           \A j \in 1..(Len(callerKey) \div 4) :
             LoadU32(byteOrder, SubSeq(c.ckey, 4 * j - 3, 4 * j))
               = SubSeq(callerKey, 4 * j - 3, 4 * j)

C6_Witness ==
  \E c \in cooked :
    /\ c.nr = 10 /\ Len(c.ckey) = 241
    /\ c.ckey[177] = 0 /\ c.ckey[241] = 10
    /\ \E i \in 161..176 : c.ckey[i] # 0

\* C7: concurrent block calls on disjoint blocks leave every byte of the two
\* shared schedules as derived, and the block a returned call wrote is what
\* the same call writes when it runs alone.
C7_ScheduleNeverMutated ==
  /\ \A c \in cooked : mem[SlotOf(c.made)] = c.ckey
  /\ \A t \in Threads :
       (pc[t] = "idle" /\ texp[t].op # "none")
         => Window(mem, texp[t].dst, texp[t].dst_ofs) = texp[t].exp

C7_Witness ==
  /\ \A t \in Threads : pc[t] = "idle" /\ texp[t].op # "none"
  /\ texp[0].dst = "A" /\ texp[1].dst = "B"
  /\ \A c \in cooked : mem[SlotOf(c.made)] = c.ckey

\* C8: two derivations in the same orientation (from the same key) return
\* byte-identical buffers, padding included, and two block calls of the same
\* kind on the same schedule and input block write identical output, whatever
\* happened before or in between.
C8_Deterministic ==
  /\ \A a \in cooked, b \in cooked : a.made = b.made => a.ckey = b.ckey
  /\ \A c1 \in calls, c2 \in calls : SameInput(c1, c2) => c1.out = c2.out

C8_Witness ==
  /\ recooked
  /\ Len(callerKey) = 16
  /\ \E c1 \in calls, c2 \in calls :
       SameInput(c1, c2) /\ c1.dst # c2.dst /\ c1.out = c2.out

\* C9: for a valid key, round key j of the decryption schedule is round key
\* Nr - j of the encryption schedule, through InvMixColumns when 0 < j < Nr
\* and unmodified for j = 0 and j = Nr; both schedules carry the same Nr.
C9_DecryptionScheduleReversed ==
  (ValidKey /\ mem["E"] # << >> /\ mem["D"] # << >>) =>
    LET Nr == mem["E"][Cooked_key_NR_offset + 1]
        e == LoadWords(mem["E"], 4 * (Nr + 1), byteOrder)
        d == LoadWords(mem["D"], 4 * (Nr + 1), byteOrder)
    IN  /\ mem["D"][Cooked_key_NR_offset + 1] = Nr
        /\ \A j \in 0..Nr :
             RoundKey(d, j) = IF 0 < j /\ j < Nr
                                THEN InvMixColumns(RoundKey(e, Nr - j))
                                ELSE RoundKey(e, Nr - j)

C9_Witness ==
  /\ Len(callerKey) = 32 /\ mem["E"] # << >> /\ mem["D"] # << >>
  /\ LET e == LoadWords(mem["E"], 60, byteOrder)
         d == LoadWords(mem["D"], 60, byteOrder)
     IN  /\ RoundKey(d, 0) = RoundKey(e, 14)
         /\ RoundKey(d, 1) # RoundKey(e, 13)
         /\ RoundKey(d, 1) = InvMixColumns(RoundKey(e, 13))

InPlace(c) == c.src = c.dst /\ c.src_ofs = c.dst_ofs

\* C10: a block call with in-bounds offsets changes no byte other than
\* dst[dst_ofs .. dst_ofs+15] (src and the schedules included), and an
\* in-place call writes the same 16 bytes as the same call between two
\* different buffers.
C10_Frame ==
  [][ (nCalls' = nCalls + 1 /\ ~oob') =>
        /\ \A o \in DOMAIN mem :
             /\ Len(mem'[o]) = Len(mem[o])
             /\ \A i \in 1..Len(mem[o]) :
                  \/ mem'[o][i] = mem[o][i]
                  \/ /\ o = last'.dst
                     /\ i > last'.dst_ofs /\ i <= last'.dst_ofs + 16
        /\ \A c1 \in calls', c2 \in calls' :
             (InPlace(c1) /\ c2.src # c2.dst /\ SameInput(c1, c2))
               => c1.out = c2.out ]_vars

C10_Witness ==
  \E c1 \in calls, c2 \in calls :
    /\ InPlace(c1) /\ c2.src # c2.dst /\ SameInput(c1, c2)
    /\ c1.out = c2.out /\ c1.out # c1.before

====
